---------------------------- MODULE Spec2Model ----------------------------
(***************************************************************************)
(* Model of the job-script rendering and sbatch-directive injection        *)
(* pipeline of jobbergate-api (apps/job_scripts/routers.py),               *)
(* and of the handlers job_script_create, job_script_list,                 *)
(* job_script_update and job_script_delete around it.                      *)
(*                                                                         *)
(* Text is modelled at character level: a Python str is a sequence of      *)
(* one-character strings.  Python's str.find and slicing (with negative    *)
(* indexes) are modelled as Python defines them.                           *)
(***************************************************************************)
EXTENDS Integers, Sequences, FiniteSets, TLC

VARIABLES
    pc,                             \* position of the call under analysis
    job_script_data_as_string,      \* routers.py:35/181  the body handed to the injector
    sbatch_params,                  \* routers.py:35/183  the directive list
    new_job_script_data_as_string,  \* routers.py:52      the injector's return value
    application_config,             \* routers.py:175     the parsed application configuration
    request_param_dict,             \* routers.py:178     job_script.param_dict, the overlay
    param_dict,                     \* routers.py:175-178 the merged configuration
    param_dict_flat,                \* routers.py:114     the flattened parameter set
    s3_application_tar,             \* routers.py:164     the members of the application archive
    template_files_at_call,         \* routers.py:73      template_files as handed to render_template
    template_files,                 \* routers.py:102/80  the template_files dict object
    raised,                         \* the exception the call under analysis ended with, "" if none
    temp_files,                     \* routers.py:121    the temporary files on disk that the call created
    applications,                   \* routers.py:154    the rows of applications_table
    job_scripts,                    \* routers.py:187    the rows of job_scripts_table
    s3_bucket,                      \* routers.py:63     what s3man.get gives for the application
    s3_calls,                       \* routers.py:63     the number of s3man.get calls so far
    job_script,                     \* routers.py:145/283 the fields set in the create or update request
    identity_claims,                \* routers.py:166    the requester's identity, from the token
    job_script_id,                  \* routers.py:258/283 the id a delete or update request names
    all,                            \* routers.py:226    the all flag of a list request
    create_dict,                    \* routers.py:168    the values to insert
    status_code,                    \* the status of the handler's response, 0 while it has none
    returned                        \* routers.py:195    the rows in the handler's response

vars == <<pc, job_script_data_as_string, sbatch_params, new_job_script_data_as_string,
          application_config, request_param_dict, param_dict, param_dict_flat,
          s3_application_tar, template_files_at_call, template_files, raised, temp_files,
          applications, job_scripts, s3_bucket, s3_calls, job_script, identity_claims,
          job_script_id, all, create_dict, status_code, returned>>

injectVars == <<job_script_data_as_string, sbatch_params, new_job_script_data_as_string>>
paramVars == <<application_config, request_param_dict, param_dict, param_dict_flat>>
renderVars == <<s3_application_tar, template_files_at_call, template_files, raised, temp_files>>
storeVars == <<applications, job_scripts, s3_bucket, s3_calls>>
requestVars == <<job_script, identity_claims, job_script_id, all>>
responseVars == <<create_dict, status_code, returned>>
apiVars == <<storeVars, requestVars, responseVars>>

\* the variables a specification does not use
NoInject ==
    /\ job_script_data_as_string = <<>>
    /\ sbatch_params = <<>>
    /\ new_job_script_data_as_string = <<>>
NoParams ==
    /\ application_config = <<>>
    /\ request_param_dict = <<>>
    /\ param_dict = <<>>
    /\ param_dict_flat = <<>>
NoRender ==
    /\ s3_application_tar = <<>>
    /\ template_files_at_call = <<>>
    /\ template_files = <<>>
    /\ raised = ""
    /\ temp_files = <<>>
NoApi ==
    /\ applications = {}
    /\ job_scripts = {}
    /\ s3_bucket = [raises |-> "", members |-> <<>>]
    /\ s3_calls = 0
    /\ job_script = <<>>
    /\ identity_claims = [user_email |-> ""]
    /\ job_script_id = 0
    /\ all = FALSE
    /\ create_dict = <<>>
    /\ status_code = 0
    /\ returned = {}

---------------------------------------------------------------------------
(* Characters *)

NL == "\n"
BS == "\\"
QT == "\""

\* "#SBATCH", the marker searched for at routers.py:44
SBATCH == <<"#", "S", "B", "A", "T", "C", "H">>

\* "\\n" at routers.py:50: the two characters backslash, n
ESCAPED_NL == <<BS, "n">>

---------------------------------------------------------------------------
(* Python str primitives *)

MinOf(S) == CHOOSE x \in S : \A y \in S : x <= y

\* s.find(sub): lowest 0-based index of sub in s, or -1
Find(s, sub) ==
    LET hits == {i \in 0..(Len(s) - Len(sub)) : SubSeq(s, i + 1, i + Len(sub)) = sub}
    IN  IF hits = {} THEN -1 ELSE MinOf(hits)

\* the clamping Python applies to a slice bound
SliceIndex(s, i) ==
    IF i < 0 THEN (IF i + Len(s) < 0 THEN 0 ELSE i + Len(s))
    ELSE (IF i > Len(s) THEN Len(s) ELSE i)

\* s[i:]
SliceFrom(s, i) == SubSeq(s, SliceIndex(s, i) + 1, Len(s))

\* s[:i]
SliceTo(s, i) == SubSeq(s, 1, SliceIndex(s, i))

RECURSIVE Concat(_)
\* "".join(parts)
Concat(parts) ==
    IF parts = <<>> THEN <<>> ELSE Head(parts) \o Concat(Tail(parts))

---------------------------------------------------------------------------
(* inject_sbatch_params, routers.py:35-55 *)

\* variant: the inserted lines in reverse input order
InnerString_Reversed(params) ==
    Concat([j \in 1..Len(params) |->
                SBATCH \o <<" ">> \o params[Len(params) + 1 - j] \o ESCAPED_NL])

\* variant: each inserted line ended by a raw newline character
InnerString_RawNewline(params) ==
    Concat([j \in 1..Len(params) |-> SBATCH \o <<" ">> \o params[j] \o <<NL>>])

\* routers.py:48-50: inner_string
InnerString(params) ==
    Concat([j \in 1..Len(params) |-> SBATCH \o <<" ">> \o params[j] \o ESCAPED_NL])

\* routers.py:44-46: line_end
LineEnd(body) ==
    LET first_sbatch_index == Find(body, SBATCH)
        string_slice == SliceFrom(body, first_sbatch_index)
    IN  Find(string_slice, <<NL>>) + first_sbatch_index + 1

\* variant: no early return, and the block built as
\* "#SBATCH " + "\\n#SBATCH ".join(params) + "\\n"
inject_sbatch_params_JoinNoGuard(body, params) ==
    LET RECURSIVE Joined(_)
        Joined(ps) ==
            IF ps = <<>> THEN <<>>
            ELSE IF Len(ps) = 1 THEN Head(ps)
            ELSE Head(ps) \o ESCAPED_NL \o SBATCH \o <<" ">> \o Joined(Tail(ps))
        inner_string == SBATCH \o <<" ">> \o Joined(params) \o ESCAPED_NL
    IN  SliceTo(body, LineEnd(body)) \o inner_string \o SliceFrom(body, LineEnd(body))

\* variant: the tail taken from line_end + 1, skipping one character
inject_sbatch_params_SkipChar(body, params) ==
    IF params = <<>> THEN body
    ELSE SliceTo(body, LineEnd(body)) \o InnerString(params)
            \o SliceFrom(body, LineEnd(body) + 1)

\* variant: the block appended after the last character of the body
inject_sbatch_params_AtEnd(body, params) ==
    IF params = <<>> THEN body
    ELSE body \o InnerString(params)

inject_sbatch_params(body, params) ==
    IF params = <<>> THEN body
    ELSE SliceTo(body, LineEnd(body)) \o InnerString(params) \o SliceFrom(body, LineEnd(body))

---------------------------------------------------------------------------
(* Python values: str, dict (insertion-ordered) and list.  A dict is the     *)
(* sequence of its entries in insertion order; keys are str.                 *)

Str(s) == [kind |-> "str", str |-> s, items |-> <<>>, elems |-> <<>>]
Dict(items) == [kind |-> "dict", str |-> <<>>, items |-> items, elems |-> <<>>]
List(elems) == [kind |-> "list", str |-> <<>>, items |-> <<>>, elems |-> elems]
Entry(k, v) == [key |-> k, val |-> v]

\* d.keys()
Keys(d) == {d[i].key : i \in 1..Len(d)}

\* key in d
HasKey(d, k) == k \in Keys(d)

\* d[k], for a key of d
Get(d, k) == d[CHOOSE i \in 1..Len(d) : d[i].key = k].val

\* variant: d.setdefault(k, v), an existing entry is kept
SetItem_KeepExisting(d, k, v) ==
    IF HasKey(d, k) THEN d ELSE Append(d, Entry(k, v))

\* d[k] = v: an existing key keeps its place, a new key goes last
SetItem(d, k, v) ==
    IF HasKey(d, k)
    THEN [i \in 1..Len(d) |-> IF d[i].key = k THEN Entry(k, v) ELSE d[i]]
    ELSE Append(d, Entry(k, v))

RECURSIVE Update_KeepExisting(_, _)
\* variant: the base wins over the overlay
Update_KeepExisting(d, other) ==
    IF other = <<>> THEN d
    ELSE Update_KeepExisting(SetItem_KeepExisting(d, Head(other).key, Head(other).val),
                             Tail(other))

RECURSIVE Update(_, _)
\* d.update(**other), routers.py:178
Update(d, other) ==
    IF other = <<>> THEN d
    ELSE Update(SetItem(d, Head(other).key, Head(other).val), Tail(other))

---------------------------------------------------------------------------
(* The flattening loop of build_job_script_data_as_string, routers.py:114-120 *)

RECURSIVE FlattenInto_FirstWins(_, _)
\* variant: a name already in the flat mapping is not overwritten
FlattenInto_FirstWins(flat, entries) ==
    IF entries = <<>> THEN flat
    ELSE LET e == Head(entries)
         IN  IF e.val.kind = "dict"
             THEN FlattenInto_FirstWins(Update_KeepExisting(flat, e.val.items), Tail(entries))
             ELSE FlattenInto_FirstWins(SetItem_KeepExisting(flat, e.key, e.val), Tail(entries))

RECURSIVE FlattenInto(_, _)
\* routers.py:115-120: one pass over param_dict.items(), writing into flat
FlattenInto(flat, entries) ==
    IF entries = <<>> THEN flat
    ELSE LET e == Head(entries)
         IN  IF e.val.kind = "dict"
             THEN FlattenInto(Update(flat, e.val.items), Tail(entries))
             ELSE FlattenInto(SetItem(flat, e.key, e.val), Tail(entries))

\* routers.py:114-120: param_dict_flat
Flatten(pd) == FlattenInto(<<>>, pd)

\* routers.py:175-178: safe_load(application_config), then update(**param_dict)
MergedParamDict(config, overlay) == Update(config, overlay)

---------------------------------------------------------------------------
(* jinja2 rendering, routers.py:78-79 and 127-128.  A template is a sequence  *)
(* of atoms: a literal character, or a placeholder expression {{ data.KEY }}. *)

PH_X == "{{ data.x }}"
PH_Y == "{{ data.y }}"
Placeholders == {PH_X, PH_Y}

\* the KEY of a placeholder
PlaceholderKey(atom) == IF atom = PH_X THEN <<"x">> ELSE <<"y">>

RECURSIVE Join(_, _)
\* sep.join(parts)
Join(sep, parts) ==
    IF parts = <<>> THEN <<>>
    ELSE IF Len(parts) = 1 THEN Head(parts)
    ELSE Head(parts) \o sep \o Join(sep, Tail(parts))

\* repr of a str over the model's characters (none is a single quote)
PyReprStr(chars) ==
    <<"'">> \o Concat([i \in 1..Len(chars) |->
                        IF chars[i] = BS THEN <<BS, BS>>
                        ELSE IF chars[i] = NL THEN <<BS, "n">>
                        ELSE <<chars[i]>>]) \o <<"'">>

RECURSIVE PyRepr(_)
\* repr(value)
PyRepr(v) ==
    IF v.kind = "str" THEN PyReprStr(v.str)
    ELSE IF v.kind = "dict"
    THEN <<"{">> \o Join(<<",", " ">>,
                        [i \in 1..Len(v.items) |->
                            PyReprStr(v.items[i].key) \o <<":", " ">> \o PyRepr(v.items[i].val)])
              \o <<"}">>
    ELSE <<"[">> \o Join(<<",", " ">>, [i \in 1..Len(v.elems) |-> PyRepr(v.elems[i])])
              \o <<"]">>

\* str(value), what jinja2 writes for an expression
PyStr(v) == IF v.kind = "str" THEN v.str ELSE PyRepr(v)

\* jinja2's lexer drops one trailing newline of the source (keep_trailing_newline
\* is False for Template(value))
LexerSource(template) ==
    IF template # <<>> /\ template[Len(template)] = NL
    THEN SubSeq(template, 1, Len(template) - 1)
    ELSE template

\* one atom rendered: data.KEY of a missing KEY is jinja2's default Undefined,
\* which is written as the empty string
RenderAtom(atom, data) ==
    IF atom \in Placeholders
    THEN (IF HasKey(data, PlaceholderKey(atom))
          THEN PyStr(Get(data, PlaceholderKey(atom)))
          ELSE <<>>)
    ELSE <<atom>>

\* Template(value).render(data=param_dict_flat), routers.py:78-79
Render(template, data) ==
    LET src == LexerSource(template)
    IN  Concat([i \in 1..Len(src) |-> RenderAtom(src[i], data)])

---------------------------------------------------------------------------
(* json.dumps of a dict of str to str, routers.py:81 *)

JsonEscape(c) ==
    IF c = QT THEN <<BS, QT>>
    ELSE IF c = BS THEN <<BS, BS>>
    ELSE IF c = NL THEN <<BS, "n">>
    ELSE <<c>>

JsonString(chars) ==
    <<QT>> \o Concat([i \in 1..Len(chars) |-> JsonEscape(chars[i])]) \o <<QT>>

JsonDumps(files) ==
    <<"{">> \o Join(<<",", " ">>,
                   [i \in 1..Len(files) |->
                        JsonString(files[i].key) \o <<":", " ">> \o JsonString(files[i].val)])
            \o <<"}">>

---------------------------------------------------------------------------
(* render_template, routers.py:73-82 *)

\* routers.py:77-80: every value of the dict replaced by its rendering
RenderedFiles(files, data) ==
    [i \in 1..Len(files) |-> Entry(files[i].key, Render(files[i].val, data))]

\* the return value; the dict passed in is left holding RenderedFiles
render_template(files, data) == JsonDumps(RenderedFiles(files, data))

APPLICATION_SH == <<"a", "p", "p", "l", "i", "c", "a", "t", "i", "o", "n", ".", "s", "h">>

---------------------------------------------------------------------------
(* build_job_script_data_as_string, routers.py:85-135.  The archive is the    *)
(* sequence of its members in getmembers() order, each a name and its text.   *)
(* jobbergate_config is a dict, supporting_files a list of str and            *)
(* supporting_files_output_name a dict, whenever they are present.            *)

JOBBERGATE_CONFIG ==
    <<"j", "o", "b", "b", "e", "r", "g", "a", "t", "e", "_", "c", "o", "n", "f", "i", "g">>
DEFAULT_TEMPLATE ==
    <<"d", "e", "f", "a", "u", "l", "t", "_", "t", "e", "m", "p", "l", "a", "t", "e">>
SUPPORTING_FILES ==
    <<"s", "u", "p", "p", "o", "r", "t", "i", "n", "g", "_", "f", "i", "l", "e", "s">>
SUPPORTING_FILES_OUTPUT_NAME ==
    <<"s", "u", "p", "p", "o", "r", "t", "i", "n", "g", "_", "f", "i", "l", "e", "s",
      "_", "o", "u", "t", "p", "u", "t", "_", "n", "a", "m", "e">>
TEMPLATES_DIR == <<"t", "e", "m", "p", "l", "a", "t", "e", "s", "/">>

Member(name, content) == [name |-> name, content |-> content]

\* routers.py:89-91: support_files_output, a dict
SupportFilesOutput(jc) ==
    IF HasKey(jc, SUPPORTING_FILES_OUTPUT_NAME)
    THEN Get(jc, SUPPORTING_FILES_OUTPUT_NAME).items ELSE <<>>

\* routers.py:93-95: supporting_files, the set of the listed paths
SupportingFiles(jc) ==
    IF HasKey(jc, SUPPORTING_FILES)
    THEN {Get(jc, SUPPORTING_FILES).elems[i].str :
            i \in 1..Len(Get(jc, SUPPORTING_FILES).elems)}
    ELSE {}

\* routers.py:97-100: the two names the main template may have
DefaultTemplateNames(jc) ==
    {Get(jc, DEFAULT_TEMPLATE).str, TEMPLATES_DIR \o Get(jc, DEFAULT_TEMPLATE).str}

\* routers.py:108: the keys of support_files_output that hold name as a substring
Match(sfo, name) ==
    SelectSeq([i \in 1..Len(sfo) |-> sfo[i].key], LAMBDA x : Find(x, name) # -1)

\* routers.py:110: support_files_output[match[0]][0]; the entry is a list of
\* str, or a str, whose [0] is its first character
OutputName(sfo, name) ==
    LET v == Get(sfo, Match(sfo, name)[1])
    IN  IF v.kind = "list" THEN v.elems[1].str ELSE <<v.str[1]>>

\* whether routers.py:108-110 raises IndexError for the member
OutputNameFails(sfo, name) ==
    \/ Match(sfo, name) = <<>>
    \/ LET v == Get(sfo, Match(sfo, name)[1])
       IN  IF v.kind = "list" THEN v.elems = <<>> ELSE v.str = <<>>

RECURSIVE CollectTemplates(_, _, _)
\* routers.py:102-111: the loop over the members, from the files collected so far
CollectTemplates(members, files, jc) ==
    IF members = <<>> THEN [raised |-> "", files |-> files]
    ELSE LET member == Head(members)
             with_main ==
                IF member.name \in DefaultTemplateNames(jc)
                THEN SetItem(files, APPLICATION_SH, member.content)
                ELSE files
         IN  IF member.name \in SupportingFiles(jc)
             THEN IF OutputNameFails(SupportFilesOutput(jc), member.name)
                  THEN [raised |-> "IndexError", files |-> with_main]
                  ELSE CollectTemplates(
                            Tail(members),
                            SetItem(with_main,
                                    OutputName(SupportFilesOutput(jc), member.name),
                                    member.content),
                            jc)
             ELSE CollectTemplates(Tail(members), with_main, jc)

\* routers.py:123-125: the names of the members written to rendered_tar
RenderedTarMembers(members, jc) ==
    LET listed == SelectSeq(members, LAMBDA member : member.name \in SupportingFiles(jc))
    IN  [i \in 1..Len(listed) |-> listed[i].name]

\* routers.py:121-132: the temporary file as the with block leaves it: closed,
\* and, created with delete=False, still on disk
NamedTemporaryFile(names) ==
    [suffix |-> ".tar.gz", closed |-> TRUE, on_disk |-> TRUE, members |-> names]

\* the outcome of a call: the exception it ended with ("" if none), the
\* template_files dict before and after render_template, the flattened parameter
\* set, the temporary files the call leaves on disk, and the returned body
BuildOutcome(exc, at_call, files, flat, left, body) ==
    [raised |-> exc, template_files_at_call |-> at_call, template_files |-> files,
     param_dict_flat |-> flat, temp_files |-> left, body |-> body]

build_job_script_data_as_string(tar, pd) ==
    IF ~HasKey(pd, JOBBERGATE_CONFIG)
    THEN BuildOutcome("KeyError", <<>>, <<>>, <<>>, <<>>, <<>>)
    ELSE LET jc == Get(pd, JOBBERGATE_CONFIG).items
         IN  IF ~HasKey(jc, DEFAULT_TEMPLATE)
             THEN BuildOutcome("TypeError", <<>>, <<>>, <<>>, <<>>, <<>>)
             ELSE LET collected == CollectTemplates(tar, <<>>, jc)
                      flat == Flatten(pd)
                  IN  IF collected.raised # ""
                      THEN BuildOutcome(collected.raised, <<>>, collected.files, <<>>,
                                        <<>>, <<>>)
                      ELSE BuildOutcome("", collected.files,
                                        RenderedFiles(collected.files, flat), flat,
                                        <<NamedTemporaryFile(RenderedTarMembers(tar, jc))>>,
                                        render_template(collected.files, flat))

---------------------------------------------------------------------------
(* Bounds and input sets *)

MaxPieces == 4
MaxDirectives == 2

SeqsUpTo(S, n) == UNION {[1..k -> S] : k \in 0..n}

\* the pieces a body is assembled from: a directive marker, a letter, a raw
\* newline and a JSON-escaped newline
Pieces == {SBATCH, <<"a">>, <<NL>>, ESCAPED_NL}

Bodies == {Concat(ps) : ps \in SeqsUpTo(Pieces, MaxPieces)}

Directives == {<<"p">>, <<"q">>}

DirectiveLists == SeqsUpTo(Directives, MaxDirectives)

---------------------------------------------------------------------------
(* The injector applied to every body and directive list *)

InitInject ==
    /\ pc = "inject"
    /\ job_script_data_as_string \in Bodies
    /\ sbatch_params \in DirectiveLists
    /\ new_job_script_data_as_string = <<>>
    /\ NoParams
    /\ NoRender
    /\ NoApi

InjectStep ==
    /\ pc = "inject"
    /\ new_job_script_data_as_string' =
            inject_sbatch_params(job_script_data_as_string, sbatch_params)
    /\ pc' = "injected"
    /\ UNCHANGED <<job_script_data_as_string, sbatch_params, paramVars, renderVars, apiVars>>

NextInject == InjectStep

SpecInject == InitInject /\ [][NextInject]_vars

\* a second call, test_routers.py:28-94 style, whose body is the first call's
\* result and whose directive list is any list
InjectAgain ==
    /\ pc = "injected"
    /\ \E params \in DirectiveLists :
            /\ sbatch_params' = params
            /\ new_job_script_data_as_string' =
                    inject_sbatch_params(new_job_script_data_as_string, params)
    /\ job_script_data_as_string' = new_job_script_data_as_string
    /\ pc' = "injected_again"
    /\ UNCHANGED <<paramVars, renderVars, apiVars>>

NextInjectTwice == InjectStep \/ InjectAgain

SpecInjectTwice == InitInject /\ [][NextInjectTwice]_vars

\* routers.py:181-184 with the body the JSON text render_template returned:
\* rendered files whose texts hold the marker or not, and directives that hold a
\* double quote or a backslash
JsonTexts == {SBATCH, SBATCH \o <<NL, "a">>, <<"a">>}
JsonFiles ==
    {<<Entry(APPLICATION_SH, t)>> : t \in JsonTexts}
        \cup {<<Entry(APPLICATION_SH, t), Entry(<<"o">>, u)>> : t, u \in JsonTexts}
        \cup {<<Entry(<<"o">>, u), Entry(APPLICATION_SH, t)>> : t, u \in JsonTexts}
JsonDirectives == Directives \cup {<<QT, "x", QT>>, <<BS>>}

InitInjectJson ==
    /\ pc = "inject"
    /\ template_files \in JsonFiles
    /\ job_script_data_as_string = JsonDumps(template_files)
    /\ sbatch_params \in SeqsUpTo(JsonDirectives, MaxDirectives)
    /\ new_job_script_data_as_string = <<>>
    /\ s3_application_tar = <<>>
    /\ template_files_at_call = <<>>
    /\ raised = ""
    /\ temp_files = <<>>
    /\ NoParams
    /\ NoApi

SpecInjectJson == InitInjectJson /\ [][NextInject]_vars

---------------------------------------------------------------------------
(* Merging and flattening applied to every configuration and overlay *)

MaxConfigEntries == 3
MaxOverlayEntries == 1

\* top-level names of a configuration or overlay
TopKeys == {<<"a">>, <<"b">>, <<"x">>}

\* a scalar, two namespaces defining x, and a namespace whose y is nested deeper
TopValues ==
    { Str(<<"1">>),
      Dict(<<Entry(<<"x">>, Str(<<"2">>))>>),
      Dict(<<Entry(<<"y">>, Str(<<"1">>)), Entry(<<"x">>, Str(<<"3">>))>>),
      Dict(<<Entry(<<"y">>, Dict(<<Entry(<<"x">>, Str(<<"1">>))>>))>>) }

\* the insertion-ordered mappings of at most n entries with distinct keys
Mappings(n) ==
    {m \in SeqsUpTo([key : TopKeys, val : TopValues], n) :
        \A i, j \in 1..Len(m) : i # j => m[i].key # m[j].key}

InitParams ==
    /\ pc = "merge"
    /\ application_config \in Mappings(MaxConfigEntries)
    /\ request_param_dict \in Mappings(MaxOverlayEntries)
    /\ param_dict = <<>>
    /\ param_dict_flat = <<>>
    /\ NoInject
    /\ NoRender
    /\ NoApi

\* routers.py:175-178
MergeStep ==
    /\ pc = "merge"
    /\ param_dict' = MergedParamDict(application_config, request_param_dict)
    /\ pc' = "flatten"
    /\ UNCHANGED <<application_config, request_param_dict, param_dict_flat, injectVars,
                   renderVars, apiVars>>

\* routers.py:114-120
FlattenStep ==
    /\ pc = "flatten"
    /\ param_dict_flat' = Flatten(param_dict)
    /\ pc' = "flattened"
    /\ UNCHANGED <<application_config, request_param_dict, param_dict, injectVars,
                   renderVars, apiVars>>

NextParams == MergeStep \/ FlattenStep

SpecParams == InitParams /\ [][NextParams]_vars

---------------------------------------------------------------------------
(* render_template applied to every template and flat parameter set *)

MaxTemplateLen == 3

TemplateAtoms == {"a", NL, PH_X, PH_Y}

Templates == SeqsUpTo(TemplateAtoms, MaxTemplateLen)

FlatParams ==
    { <<>>,
      <<Entry(<<"x">>, Str(<<"1">>))>>,
      <<Entry(<<"y">>, Str(<<"2", NL>>))>>,
      <<Entry(<<"x">>, Str(<<"1">>)), Entry(<<"y">>, Str(<<>>))>> }

InitRender ==
    /\ pc = "render"
    /\ \E t \in Templates :
        /\ template_files_at_call = <<Entry(APPLICATION_SH, t)>>
        /\ template_files = <<Entry(APPLICATION_SH, t)>>
    /\ param_dict_flat \in FlatParams
    /\ application_config = <<>>
    /\ request_param_dict = <<>>
    /\ param_dict = <<>>
    /\ s3_application_tar = <<>>
    /\ raised = ""
    /\ temp_files = <<>>
    /\ NoInject
    /\ NoApi

\* routers.py:73-82; jinja2 raises nothing for the templates of the model
RenderStep ==
    /\ pc = "render"
    /\ template_files' = RenderedFiles(template_files, param_dict_flat)
    /\ job_script_data_as_string' = render_template(template_files, param_dict_flat)
    /\ raised' = ""
    /\ pc' = "rendered"
    /\ UNCHANGED <<sbatch_params, new_job_script_data_as_string, paramVars,
                   s3_application_tar, template_files_at_call, temp_files, apiVars>>

NextRender == RenderStep

SpecRender == InitRender /\ [][NextRender]_vars

---------------------------------------------------------------------------
(* job_script_create, routers.py:144-195: the merge of the overlay, the       *)
(* assembly of the body and the injection of the directives                   *)

MaxMembers == 2

MemberNames == {<<"j">>, TEMPLATES_DIR \o <<"j">>, <<"s">>}

\* a script with a directive line and a placeholder, and one without marker
MemberContents ==
    { SBATCH \o <<" ", PH_X, NL, "a">>,
      <<"a", NL, PH_X>> }

\* the archives of at most MaxMembers members with distinct names
Archives ==
    {tar \in SeqsUpTo([name : MemberNames, content : MemberContents], MaxMembers) :
        \A i, j \in 1..Len(tar) : i # j => tar[i].name # tar[j].name}

\* jobbergate_config naming the main template only
MainOnlyConfig ==
    Dict(<<Entry(DEFAULT_TEMPLATE, Str(<<"j">>))>>)

\* jobbergate_config with the supporting file s, stored as o
SupportingConfig ==
    Dict(<<Entry(DEFAULT_TEMPLATE, Str(<<"j">>)),
           Entry(SUPPORTING_FILES, List(<<Str(<<"s">>)>>)),
           Entry(SUPPORTING_FILES_OUTPUT_NAME,
                 Dict(<<Entry(<<"s">>, List(<<Str(<<"o">>)>>))>>))>>)

\* jobbergate_config listing the supporting file s without an output name
UnnamedSupportingConfig ==
    Dict(<<Entry(DEFAULT_TEMPLATE, Str(<<"j">>)),
           Entry(SUPPORTING_FILES, List(<<Str(<<"s">>)>>)),
           Entry(SUPPORTING_FILES_OUTPUT_NAME, Dict(<<>>))>>)

ApplicationConfigs ==
    { <<Entry(JOBBERGATE_CONFIG, MainOnlyConfig), Entry(<<"x">>, Str(<<"1">>))>>,
      <<Entry(<<"a">>, Dict(<<Entry(<<"x">>, Str(<<"1">>))>>)),
        Entry(JOBBERGATE_CONFIG, SupportingConfig)>>,
      <<Entry(JOBBERGATE_CONFIG, UnnamedSupportingConfig)>>,
      <<Entry(<<"x">>, Str(<<"1">>))>> }

\* the param_dict of a request: empty, a parameter value, or a manifest
Overlays ==
    { <<>>,
      <<Entry(<<"x">>, Str(<<"2">>))>>,
      <<Entry(JOBBERGATE_CONFIG, MainOnlyConfig)>> }

\* fastapi.status, routers.py:140, 159, 192, 254, 278, 296
HTTP_200_OK == 200
HTTP_201_CREATED == 201
HTTP_204_NO_CONTENT == 204
HTTP_404_NOT_FOUND == 404
HTTP_409_CONFLICT == 409
HTTP_422_UNPROCESSABLE_ENTITY == 422

OWNER1 == "owner1@org.com"
OWNER2 == "owner2@org.com"

\* the body a create request supplies itself
SuppliedBodies == {<<"r">>}

\* d without the key k, d.pop(k, default)
Pop(d, k) == [x \in DOMAIN d \ {k} |-> d[x]]

\* d with d[k] = v
With(d, k, v) == [x \in DOMAIN d \cup {k} |-> IF x = k THEN v ELSE d[x]]

\* routers.py:187: the row the insert stores, the id given by the database
Row(id, values) == With(values, "id", id)

\* the next value of the id sequence of a table
NextId(table) ==
    IF table = {} THEN 1
    ELSE (CHOOSE r \in table : \A q \in table : q.id <= r.id).id + 1

\* a job script stored by an earlier request
StoredJobScript(id, owner) ==
    Row(id, [job_script_name |-> "js0", application_id |-> 1,
             job_script_data_as_string |-> <<"{", "}">>,
             job_script_owner_email |-> owner])

\* routers.py:169: job_script.dict(exclude_unset=True)
JobScriptDict(js, sp, overlay) == With(With(js, "sbatch_params", sp), "param_dict", overlay)

\* routers.py:168-171 as a plausible slip would have it: param_dict not dropped
CreateDict_KeepParamDict(fields, claims) ==
    With(fields, "job_script_owner_email", claims.user_email)

\* routers.py:168-171
CreateDict(fields, claims) ==
    With(Pop(fields, "param_dict"), "job_script_owner_email", claims.user_email)

\* routers.py:58-70 as a plausible slip would have it: the error swallowed and
\* an empty archive handed on
get_s3_object_as_tarfile_Swallow(bucket) ==
    [status_code |-> 0, s3_application_tar |-> bucket.members]

\* routers.py:58-70: the members of the archive, or the status of the
\* HTTPException raised for a BotoCoreError of s3man.get
get_s3_object_as_tarfile(bucket) ==
    IF bucket.raises = "BotoCoreError"
    THEN [status_code |-> HTTP_404_NOT_FOUND, s3_application_tar |-> <<>>]
    ELSE [status_code |-> 0, s3_application_tar |-> bucket.members]

\* routers.py:270 as a plausible slip would have it: the where clause dropped
DeleteWhere_All(table, id) == {}

\* routers.py:270-271: delete().where(id == job_script_id)
DeleteWhere(table, id) == {r \in table : r.id # id}

\* storage.py:23
INTEGRITY_CHECK_EXCEPTIONS == {"UniqueViolationError"}

\* what the database answers a write statement with: no exception, or one of
\* INTEGRITY_CHECK_EXCEPTIONS, the statement then having written nothing
DatabaseAnswers == {""} \cup INTEGRITY_CHECK_EXCEPTIONS

\* routers.py:191-192, 295-296 as a plausible slip would have it: no except
\* clause, so that the exception leaves the handler with no response of its own
HTTPExceptionFor_Uncaught(exc, status) == 0

\* routers.py:191-192, 295-296: except INTEGRITY_CHECK_EXCEPTIONS, raise
\* HTTPException(status_code=status)
HTTPExceptionFor(exc, status) ==
    IF exc \in INTEGRITY_CHECK_EXCEPTIONS THEN status ELSE 0

\* the state before any handler step
NoCallYet ==
    /\ application_config = <<>>
    /\ s3_application_tar = <<>>
    /\ param_dict = <<>>
    /\ param_dict_flat = <<>>
    /\ template_files_at_call = <<>>
    /\ template_files = <<>>
    /\ job_script_data_as_string = <<>>
    /\ new_job_script_data_as_string = <<>>
    /\ raised = ""
    /\ temp_files = <<>>
    /\ s3_calls = 0
    /\ create_dict = <<>>
    /\ status_code = 0
    /\ returned = {}

\* a create request for application 1 or 2, of which 1 is stored
InitCreate ==
    /\ pc = "create"
    /\ applications \in {{[id |-> 1, application_config |-> c]} : c \in ApplicationConfigs}
    /\ job_scripts \in {{}, {StoredJobScript(1, OWNER2)}}
    /\ s3_bucket \in {[raises |-> "", members |-> tar] : tar \in Archives}
                        \cup {[raises |-> "BotoCoreError", members |-> <<>>]}
    /\ job_script \in [job_script_name : {"js1"}, application_id : {1, 2},
                        job_script_data_as_string : SuppliedBodies]
    /\ request_param_dict \in Overlays
    /\ sbatch_params \in DirectiveLists
    /\ identity_claims = [user_email |-> OWNER1]
    /\ job_script_id = 0
    /\ all = FALSE
    /\ NoCallYet

\* a delete request for one of the ids 1..3, of which at most 1 and 2 are stored
InitDelete ==
    /\ pc = "delete"
    /\ applications = {[id |-> 1, application_config |-> <<>>]}
    /\ job_scripts \in {{}, {StoredJobScript(1, OWNER1)},
                         {StoredJobScript(1, OWNER1), StoredJobScript(2, OWNER2)}}
    /\ s3_bucket = [raises |-> "", members |-> <<>>]
    /\ job_script = <<>>
    /\ request_param_dict = <<>>
    /\ sbatch_params = <<>>
    /\ identity_claims = [user_email |-> OWNER1]
    /\ job_script_id \in 1..3
    /\ all = FALSE
    /\ NoCallYet

\* test_routers.py:778-783, 814: the fields an update request sets
UpdateRequests ==
    { [job_script_name |-> "new name"],
      [job_script_data_as_string |-> <<"n">>],
      [job_script_name |-> "new name", job_script_data_as_string |-> <<"n">>] }

\* an update request for one of the ids 1..3, of which at most 1 and 2 are stored
InitUpdate ==
    /\ pc = "update"
    /\ applications = {[id |-> 1, application_config |-> <<>>]}
    /\ job_scripts \in {{}, {StoredJobScript(1, OWNER1)},
                         {StoredJobScript(1, OWNER1), StoredJobScript(2, OWNER2)}}
    /\ s3_bucket = [raises |-> "", members |-> <<>>]
    /\ job_script \in UpdateRequests
    /\ request_param_dict = <<>>
    /\ sbatch_params = <<>>
    /\ identity_claims = [user_email |-> OWNER1]
    /\ job_script_id \in 1..3
    /\ all = FALSE
    /\ NoCallYet

\* a list request of owner 1 or owner 2, with or without all, and without
\* search, sort_field and pagination bounds (test_routers.py:388-445, 479-537)
InitList ==
    /\ pc = "list"
    /\ applications = {[id |-> 1, application_config |-> <<>>]}
    /\ job_scripts \in {{}, {StoredJobScript(1, OWNER1)},
                         {StoredJobScript(1, OWNER1), StoredJobScript(2, OWNER2)},
                         {StoredJobScript(1, OWNER1), StoredJobScript(2, OWNER2),
                          StoredJobScript(3, OWNER1)}}
    /\ s3_bucket = [raises |-> "", members |-> <<>>]
    /\ job_script = <<>>
    /\ request_param_dict = <<>>
    /\ sbatch_params = <<>>
    /\ identity_claims \in {[user_email |-> OWNER1], [user_email |-> OWNER2]}
    /\ job_script_id = 0
    /\ all \in BOOLEAN
    /\ NoCallYet

Init == InitCreate \/ InitDelete \/ InitUpdate \/ InitList

kernelVars == <<job_script_data_as_string, new_job_script_data_as_string, param_dict,
                param_dict_flat, template_files_at_call, template_files, temp_files>>
inputVars == <<applications, s3_bucket, job_script, request_param_dict, sbatch_params,
               identity_claims, job_script_id, all>>

\* routers.py:154-163: the application row, or 404
CreateSelect ==
    /\ pc = "create"
    /\ LET raw_application == {a \in applications : a.id = job_script.application_id}
       IN  IF raw_application = {}
           THEN /\ status_code' = HTTP_404_NOT_FOUND
                /\ pc' = "failed"
                /\ UNCHANGED application_config
           ELSE /\ application_config' = (CHOOSE a \in raw_application : TRUE).application_config
                /\ pc' = "fetch"
                /\ UNCHANGED status_code
    /\ UNCHANGED <<inputVars, kernelVars, s3_application_tar, raised, job_scripts, s3_calls,
                   create_dict, returned>>

\* routers.py:164: one call of s3man.get, then the archive, or 404
CreateFetch ==
    /\ pc = "fetch"
    /\ s3_calls' = s3_calls + 1
    /\ LET fetched == get_s3_object_as_tarfile(s3_bucket)
       IN  /\ status_code' = fetched.status_code
           /\ s3_application_tar' = fetched.s3_application_tar
           /\ pc' = IF fetched.status_code = 0 THEN "build" ELSE "failed"
    /\ UNCHANGED <<inputVars, kernelVars, application_config, raised, job_scripts,
                   create_dict, returned>>

\* routers.py:166-184: an exception of the assembly leaves the handler
CreateBuild ==
    /\ pc = "build"
    /\ LET fields == CreateDict(JobScriptDict(job_script, sbatch_params, request_param_dict),
                                identity_claims)
           merged == MergedParamDict(application_config, request_param_dict)
           built == build_job_script_data_as_string(s3_application_tar, merged)
           injected == inject_sbatch_params(built.body, fields.sbatch_params)
       IN  /\ param_dict' = merged
           /\ param_dict_flat' = built.param_dict_flat
           /\ template_files_at_call' = built.template_files_at_call
           /\ template_files' = built.template_files
           /\ job_script_data_as_string' = built.body
           /\ raised' = built.raised
           /\ temp_files' = built.temp_files
           /\ IF built.raised = ""
              THEN /\ new_job_script_data_as_string' = injected
                   /\ create_dict' = With(Pop(fields, "sbatch_params"),
                                          "job_script_data_as_string", injected)
                   /\ pc' = "insert"
              ELSE /\ new_job_script_data_as_string' = <<>>
                   /\ create_dict' = fields
                   /\ pc' = "failed"
    /\ UNCHANGED <<inputVars, application_config, s3_application_tar, job_scripts, s3_calls,
                   status_code, returned>>

\* routers.py:186-195: the insert, returning the stored row, or 422 for an
\* integrity exception
CreateInsert ==
    /\ pc = "insert"
    /\ \E exc \in DatabaseAnswers :
        /\ raised' = exc
        /\ IF exc # ""
           THEN /\ status_code' = HTTPExceptionFor(exc, HTTP_422_UNPROCESSABLE_ENTITY)
                /\ pc' = "conflict"
                /\ UNCHANGED <<job_scripts, returned>>
           ELSE LET job_script_data == Row(NextId(job_scripts), create_dict)
                IN  /\ job_scripts' = job_scripts \cup {job_script_data}
                    /\ returned' = {job_script_data}
                    /\ status_code' = HTTP_201_CREATED
                    /\ pc' = "done"
    /\ UNCHANGED <<inputVars, kernelVars, application_config, s3_application_tar, s3_calls,
                   create_dict>>

\* routers.py:290 as a plausible slip would have it: the row replaced by the
\* request's fields
UpdateValues_Replace(row, values) ==
    [k \in DOMAIN row |-> IF k \in DOMAIN values THEN values[k]
                          ELSE IF k = "id" THEN row[k] ELSE <<>>]

\* routers.py:290: .values(job_script.dict(exclude_unset=True)) on a row
UpdateValues(row, values) ==
    [k \in DOMAIN row |-> IF k \in DOMAIN values THEN values[k] ELSE row[k]]

\* routers.py:287-304: the update statement with its returning clause; 409 for
\* an integrity exception, 404 without a row, else 200 and the updated row
UpdateExecute ==
    /\ pc = "update"
    /\ LET matched == {r \in job_scripts : r.id = job_script_id}
           result == {UpdateValues(r, job_script) : r \in matched}
       IN  \E exc \in DatabaseAnswers :
            /\ exc # "" => matched # {}
            /\ raised' = exc
            /\ IF exc # ""
               THEN /\ status_code' = HTTPExceptionFor(exc, HTTP_409_CONFLICT)
                    /\ pc' = "update_conflict"
                    /\ UNCHANGED <<job_scripts, returned>>
               ELSE IF result = {}
               THEN /\ status_code' = HTTP_404_NOT_FOUND
                    /\ pc' = "update_failed"
                    /\ UNCHANGED <<job_scripts, returned>>
               ELSE /\ job_scripts' = (job_scripts \ matched) \cup result
                    /\ returned' = result
                    /\ status_code' = HTTP_200_OK
                    /\ pc' = "updated"
    /\ UNCHANGED <<inputVars, kernelVars, application_config, s3_application_tar, s3_calls,
                   create_dict>>

\* routers.py:242-243 as a plausible slip would have it: no where clause
OwnedBy_Everyone(table, user_email) == table

\* routers.py:242-243: where(job_script_owner_email == identity_claims.user_email)
OwnedBy(table, user_email) == {r \in table : r.job_script_owner_email = user_email}

\* routers.py:224-249: the select of job_script_list, filtered by owner unless
\* all is set; search and sort_field are None and the page holds every row
ListExecute ==
    /\ pc = "list"
    /\ returned' = IF all THEN job_scripts
                   ELSE OwnedBy(job_scripts, identity_claims.user_email)
    /\ status_code' = HTTP_200_OK
    /\ pc' = "listed"
    /\ UNCHANGED <<inputVars, kernelVars, application_config, s3_application_tar, raised,
                   job_scripts, s3_calls, create_dict>>

\* routers.py:260-268: the select of job_script_delete, 404 without a row
DeleteSelect ==
    /\ pc = "delete"
    /\ LET raw_job_script == {r \in job_scripts : r.id = job_script_id}
       IN  IF raw_job_script = {}
           THEN status_code' = HTTP_404_NOT_FOUND /\ pc' = "delete_failed"
           ELSE UNCHANGED status_code /\ pc' = "delete_execute"
    /\ UNCHANGED <<inputVars, kernelVars, application_config, s3_application_tar, raised,
                   job_scripts, s3_calls, create_dict, returned>>

\* routers.py:270-271: the delete statement, then 204
DeleteExecute ==
    /\ pc = "delete_execute"
    /\ job_scripts' = DeleteWhere(job_scripts, job_script_id)
    /\ status_code' = HTTP_204_NO_CONTENT
    /\ pc' = "deleted"
    /\ UNCHANGED <<inputVars, kernelVars, application_config, s3_application_tar, raised,
                   s3_calls, create_dict, returned>>

Next ==
    \/ CreateSelect
    \/ CreateFetch
    \/ CreateBuild
    \/ CreateInsert
    \/ DeleteSelect
    \/ DeleteExecute
    \/ UpdateExecute
    \/ ListExecute

Spec == Init /\ [][Next]_vars

---------------------------------------------------------------------------
(* build_job_script_data_as_string applied to every bundle and manifest *)

MaxBundleMembers == 3

\* the main template under both of its names, and two supporting files
BundleMemberNames == MemberNames \cup {<<"t">>}

\* the archives of at most MaxBundleMembers members with distinct names
Bundles ==
    {tar \in SeqsUpTo([name : BundleMemberNames, content : MemberContents], MaxBundleMembers) :
        \A i, j \in 1..Len(tar) : i # j => tar[i].name # tar[j].name}

\* the supporting file s stored under the name of the main script
SupportingAsMainConfig ==
    Dict(<<Entry(DEFAULT_TEMPLATE, Str(<<"j">>)),
           Entry(SUPPORTING_FILES, List(<<Str(<<"s">>)>>)),
           Entry(SUPPORTING_FILES_OUTPUT_NAME,
                 Dict(<<Entry(<<"s">>, List(<<Str(APPLICATION_SH)>>))>>))>>)

\* the supporting files s and t, both stored as o
SameOutputNameConfig ==
    Dict(<<Entry(DEFAULT_TEMPLATE, Str(<<"j">>)),
           Entry(SUPPORTING_FILES, List(<<Str(<<"s">>), Str(<<"t">>)>>)),
           Entry(SUPPORTING_FILES_OUTPUT_NAME,
                 Dict(<<Entry(<<"s">>, List(<<Str(<<"o">>)>>)),
                        Entry(<<"t">>, List(<<Str(<<"o">>)>>))>>))>>)

\* supporting_files without supporting_files_output_name
NoOutputNameConfig ==
    Dict(<<Entry(DEFAULT_TEMPLATE, Str(<<"j">>)),
           Entry(SUPPORTING_FILES, List(<<Str(<<"s">>)>>))>>)

\* supporting_files_output_name without supporting_files
NoSupportingFilesConfig ==
    Dict(<<Entry(DEFAULT_TEMPLATE, Str(<<"j">>)),
           Entry(SUPPORTING_FILES_OUTPUT_NAME,
                 Dict(<<Entry(<<"s">>, List(<<Str(<<"o">>)>>))>>))>>)

\* the supporting file s stored as o, after an entry for s2 stored as p
SubstringKeyConfig ==
    Dict(<<Entry(DEFAULT_TEMPLATE, Str(<<"j">>)),
           Entry(SUPPORTING_FILES, List(<<Str(<<"s">>)>>)),
           Entry(SUPPORTING_FILES_OUTPUT_NAME,
                 Dict(<<Entry(<<"s", "2">>, List(<<Str(<<"p">>)>>)),
                        Entry(<<"s">>, List(<<Str(<<"o">>)>>))>>))>>)

Manifests ==
    {MainOnlyConfig, SupportingConfig, UnnamedSupportingConfig, SupportingAsMainConfig,
     SameOutputNameConfig, NoOutputNameConfig, NoSupportingFilesConfig,
     SubstringKeyConfig}

\* the merged configurations handed to the assembly: a manifest and a parameter
BuildParamDicts ==
    {<<Entry(JOBBERGATE_CONFIG, jc), Entry(<<"x">>, Str(<<"1">>))>> : jc \in Manifests}

InitBuild ==
    /\ pc = "build"
    /\ s3_application_tar \in Bundles
    /\ param_dict \in BuildParamDicts
    /\ application_config = <<>>
    /\ request_param_dict = <<>>
    /\ param_dict_flat = <<>>
    /\ template_files_at_call = <<>>
    /\ template_files = <<>>
    /\ raised = ""
    /\ temp_files = <<>>
    /\ NoInject
    /\ NoApi

\* routers.py:85-135
BuildStep ==
    /\ pc = "build"
    /\ LET built == build_job_script_data_as_string(s3_application_tar, param_dict)
       IN  /\ param_dict_flat' = built.param_dict_flat
           /\ template_files_at_call' = built.template_files_at_call
           /\ template_files' = built.template_files
           /\ job_script_data_as_string' = built.body
           /\ raised' = built.raised
           /\ temp_files' = built.temp_files
    /\ pc' = "built"
    /\ UNCHANGED <<sbatch_params, new_job_script_data_as_string, application_config,
                   request_param_dict, param_dict, s3_application_tar, apiVars>>

NextBuild == BuildStep

SpecBuild == InitBuild /\ [][NextBuild]_vars

---------------------------------------------------------------------------
(* Two job_script_create calls in flight.  Every local of a call is held     *)
(* per call; the tables, the object store and the temporary directory are    *)
(* shared.  The synchronous part of the handler is split into the steps of   *)
(* build_job_script_data_as_string, so that the calls interleave as threads  *)
(* would; tasks of one event loop interleave at the awaits only.             *)

Calls == {1, 2}

\* routers.py:101 as a plausible slip would have it: one module-level dict
NewDict_ModuleLevel(c) == 0

\* routers.py:101: template_files = {}, a dict object of the call's own
NewDict(c) == c

DictObjects == {NewDict(c) : c \in Calls}

\* the ids a create request may name; the last one is not stored
ConcApplicationIds == {1, 2, 3, 4, 5}

\* the stored applications: 1 with a main script only, 2 with a supporting
\* file, 3 with a supporting file that has no output name, 4 without archive
ConcApplications ==
    { [id |-> 1, application_config |->
            <<Entry(JOBBERGATE_CONFIG, MainOnlyConfig), Entry(<<"x">>, Str(<<"1">>))>>],
      [id |-> 2, application_config |->
            <<Entry(<<"a">>, Dict(<<Entry(<<"x">>, Str(<<"1">>))>>)),
              Entry(JOBBERGATE_CONFIG, SupportingConfig)>>],
      [id |-> 3, application_config |-> <<Entry(JOBBERGATE_CONFIG, UnnamedSupportingConfig)>>],
      [id |-> 4, application_config |-> <<Entry(JOBBERGATE_CONFIG, MainOnlyConfig)>>] }

\* what s3man.get gives for each application
ConcBucket ==
    [a \in ConcApplicationIds |->
        IF a = 1
        THEN [raises |-> "", members |-> <<Member(<<"j">>, SBATCH \o <<" ", PH_X, NL, "a">>)>>]
        ELSE IF a = 2
        THEN [raises |-> "",
              members |-> <<Member(TEMPLATES_DIR \o <<"j">>, SBATCH \o <<" ", PH_X, NL, "a">>),
                            Member(<<"s">>, <<"a", NL, PH_X>>)>>]
        ELSE IF a = 3
        THEN [raises |-> "", members |-> <<Member(<<"s">>, <<"a", NL, PH_X>>)>>]
        ELSE [raises |-> "BotoCoreError", members |-> <<>>]]

ConcDirectiveLists == {<<>>, << <<"p">> >>}

InitConcurrent ==
    /\ pc = [c \in Calls |-> "create"]
    /\ applications = ConcApplications
    /\ s3_bucket = ConcBucket
    /\ job_scripts = {}
    /\ job_script \in [Calls -> [job_script_name : {"js1"},
                                  application_id : ConcApplicationIds,
                                  job_script_data_as_string : SuppliedBodies]]
    /\ request_param_dict \in [Calls -> Overlays]
    /\ sbatch_params \in [Calls -> ConcDirectiveLists]
    /\ identity_claims = [c \in Calls |-> [user_email |-> IF c = 1 THEN OWNER1 ELSE OWNER2]]
    /\ job_script_id = 0
    /\ all = FALSE
    /\ application_config = [c \in Calls |-> <<>>]
    /\ s3_application_tar = [c \in Calls |-> <<>>]
    /\ param_dict = [c \in Calls |-> <<>>]
    /\ param_dict_flat = [c \in Calls |-> <<>>]
    /\ template_files = [d \in DictObjects |-> <<>>]
    /\ template_files_at_call = [c \in Calls |-> <<>>]
    /\ job_script_data_as_string = [c \in Calls |-> <<>>]
    /\ new_job_script_data_as_string = [c \in Calls |-> <<>>]
    /\ raised = [c \in Calls |-> ""]
    /\ create_dict = [c \in Calls |-> <<>>]
    /\ status_code = [c \in Calls |-> 0]
    /\ returned = [c \in Calls |-> {}]
    /\ temp_files = <<>>
    /\ s3_calls = 0

\* f with the value v for the call c
Set(f, c, v) == [f EXCEPT ![c] = v]

\* routers.py:154-163
ConcSelect(c) ==
    /\ pc[c] = "create"
    /\ LET raw_application == {a \in applications : a.id = job_script[c].application_id}
       IN  IF raw_application = {}
           THEN /\ status_code' = Set(status_code, c, HTTP_404_NOT_FOUND)
                /\ pc' = Set(pc, c, "failed")
                /\ UNCHANGED application_config
           ELSE /\ application_config' =
                        Set(application_config, c,
                            (CHOOSE a \in raw_application : TRUE).application_config)
                /\ pc' = Set(pc, c, "fetch")
                /\ UNCHANGED status_code
    /\ UNCHANGED <<inputVars, kernelVars, s3_application_tar, raised, job_scripts, s3_calls,
                   create_dict, returned>>

\* routers.py:164
ConcFetch(c) ==
    /\ pc[c] = "fetch"
    /\ s3_calls' = s3_calls + 1
    /\ LET fetched == get_s3_object_as_tarfile(s3_bucket[job_script[c].application_id])
       IN  /\ status_code' = Set(status_code, c, fetched.status_code)
           /\ s3_application_tar' = Set(s3_application_tar, c, fetched.s3_application_tar)
           /\ pc' = Set(pc, c, IF fetched.status_code = 0 THEN "collect" ELSE "failed")
    /\ UNCHANGED <<inputVars, kernelVars, application_config, raised, job_scripts,
                   create_dict, returned>>

\* routers.py:166-178 and 89-111: create_dict, the merged configuration, and the
\* loop that fills the call's template_files dict
ConcCollect(c) ==
    /\ pc[c] = "collect"
    /\ LET merged == MergedParamDict(application_config[c], request_param_dict[c])
           jc == Get(merged, JOBBERGATE_CONFIG).items
           collected == CollectTemplates(s3_application_tar[c], <<>>, jc)
           exc == IF ~HasKey(merged, JOBBERGATE_CONFIG) THEN "KeyError"
                  ELSE IF ~HasKey(jc, DEFAULT_TEMPLATE) THEN "TypeError"
                  ELSE collected.raised
       IN  /\ create_dict' =
                Set(create_dict, c,
                    CreateDict(JobScriptDict(job_script[c], sbatch_params[c],
                                             request_param_dict[c]),
                               identity_claims[c]))
           /\ param_dict' = Set(param_dict, c, merged)
           /\ raised' = Set(raised, c, exc)
           /\ template_files' =
                IF exc \in {"KeyError", "TypeError"} THEN template_files
                ELSE Set(template_files, NewDict(c), collected.files)
           /\ pc' = Set(pc, c, IF exc = "" THEN "flatten" ELSE "failed")
    /\ UNCHANGED <<inputVars, application_config, s3_application_tar, job_scripts, s3_calls,
                   status_code, returned, job_script_data_as_string,
                   new_job_script_data_as_string, param_dict_flat, template_files_at_call,
                   temp_files>>

\* routers.py:114-132: the flattened parameter set and the temporary archive
ConcFlatten(c) ==
    /\ pc[c] = "flatten"
    /\ param_dict_flat' = Set(param_dict_flat, c, Flatten(param_dict[c]))
    /\ temp_files' =
            Append(temp_files,
                   NamedTemporaryFile(
                        RenderedTarMembers(s3_application_tar[c],
                                           Get(param_dict[c], JOBBERGATE_CONFIG).items)))
    /\ pc' = Set(pc, c, "render")
    /\ UNCHANGED <<inputVars, application_config, s3_application_tar, job_scripts, s3_calls,
                   status_code, returned, job_script_data_as_string,
                   new_job_script_data_as_string, param_dict, template_files_at_call,
                   template_files, raised, create_dict>>

\* routers.py:134 and 73-82: render_template on the call's template_files dict
ConcRender(c) ==
    /\ pc[c] = "render"
    /\ template_files_at_call' = Set(template_files_at_call, c, template_files[NewDict(c)])
    /\ template_files' =
            Set(template_files, NewDict(c),
                RenderedFiles(template_files[NewDict(c)], param_dict_flat[c]))
    /\ job_script_data_as_string' =
            Set(job_script_data_as_string, c,
                render_template(template_files[NewDict(c)], param_dict_flat[c]))
    /\ pc' = Set(pc, c, "inject")
    /\ UNCHANGED <<inputVars, application_config, s3_application_tar, job_scripts, s3_calls,
                   status_code, returned, new_job_script_data_as_string, param_dict,
                   param_dict_flat, temp_files, raised, create_dict>>

\* routers.py:183-184
ConcInject(c) ==
    /\ pc[c] = "inject"
    /\ LET injected == inject_sbatch_params(job_script_data_as_string[c],
                                            create_dict[c].sbatch_params)
       IN  /\ new_job_script_data_as_string' = Set(new_job_script_data_as_string, c, injected)
           /\ create_dict' =
                Set(create_dict, c,
                    With(Pop(create_dict[c], "sbatch_params"),
                         "job_script_data_as_string", injected))
    /\ pc' = Set(pc, c, "insert")
    /\ UNCHANGED <<inputVars, application_config, s3_application_tar, job_scripts, s3_calls,
                   status_code, returned, job_script_data_as_string, param_dict,
                   param_dict_flat, template_files_at_call, template_files, temp_files,
                   raised>>

\* routers.py:186-195
ConcInsert(c) ==
    /\ pc[c] = "insert"
    /\ \E exc \in DatabaseAnswers :
        /\ raised' = Set(raised, c, exc)
        /\ IF exc # ""
           THEN /\ status_code' =
                        Set(status_code, c,
                            HTTPExceptionFor(exc, HTTP_422_UNPROCESSABLE_ENTITY))
                /\ pc' = Set(pc, c, "conflict")
                /\ UNCHANGED <<job_scripts, returned>>
           ELSE LET job_script_data == Row(NextId(job_scripts), create_dict[c])
                IN  /\ job_scripts' = job_scripts \cup {job_script_data}
                    /\ returned' = Set(returned, c, {job_script_data})
                    /\ status_code' = Set(status_code, c, HTTP_201_CREATED)
                    /\ pc' = Set(pc, c, "done")
    /\ UNCHANGED <<inputVars, kernelVars, application_config, s3_application_tar, s3_calls,
                   create_dict>>

NextConcurrent ==
    \E c \in Calls :
        \/ ConcSelect(c)
        \/ ConcFetch(c)
        \/ ConcCollect(c)
        \/ ConcFlatten(c)
        \/ ConcRender(c)
        \/ ConcInject(c)
        \/ ConcInsert(c)

SpecConcurrent == InitConcurrent /\ [][NextConcurrent]_vars

---------------------------------------------------------------------------
(* Two delete requests served by one process.  The handler awaits twice, at  *)
(* the select and at the delete statement, and the requests interleave at    *)
(* these awaits.                                                             *)

InitConcurrentDelete ==
    /\ pc = [c \in Calls |-> "delete"]
    /\ applications = {[id |-> 1, application_config |-> <<>>]}
    /\ job_scripts \in {{}, {StoredJobScript(1, OWNER1)},
                         {StoredJobScript(1, OWNER1), StoredJobScript(2, OWNER2)}}
    /\ s3_bucket = [raises |-> "", members |-> <<>>]
    /\ s3_calls = 0
    /\ job_script = <<>>
    /\ identity_claims = [c \in Calls |-> [user_email |-> IF c = 1 THEN OWNER1 ELSE OWNER2]]
    /\ job_script_id \in [Calls -> 1..3]
    /\ all = FALSE
    /\ create_dict = <<>>
    /\ status_code = [c \in Calls |-> 0]
    /\ returned = {}
    /\ NoInject
    /\ NoParams
    /\ NoRender

\* routers.py:260-268
ConcDeleteSelect(c) ==
    /\ pc[c] = "delete"
    /\ LET raw_job_script == {r \in job_scripts : r.id = job_script_id[c]}
       IN  IF raw_job_script = {}
           THEN /\ status_code' = Set(status_code, c, HTTP_404_NOT_FOUND)
                /\ pc' = Set(pc, c, "delete_failed")
           ELSE /\ UNCHANGED status_code
                /\ pc' = Set(pc, c, "delete_execute")
    /\ UNCHANGED <<inputVars, kernelVars, application_config, s3_application_tar, raised,
                   job_scripts, s3_calls, create_dict, returned>>

\* routers.py:270-271
ConcDeleteExecute(c) ==
    /\ pc[c] = "delete_execute"
    /\ job_scripts' = DeleteWhere(job_scripts, job_script_id[c])
    /\ status_code' = Set(status_code, c, HTTP_204_NO_CONTENT)
    /\ pc' = Set(pc, c, "deleted")
    /\ UNCHANGED <<inputVars, kernelVars, application_config, s3_application_tar, raised,
                   s3_calls, create_dict, returned>>

NextConcurrentDelete ==
    \E c \in Calls :
        \/ ConcDeleteSelect(c)
        \/ ConcDeleteExecute(c)

SpecConcurrentDelete == InitConcurrentDelete /\ [][NextConcurrentDelete]_vars

---------------------------------------------------------------------------
(* Properties of inject_sbatch_params, checked under SpecInject *)

Injected == pc = "injected"

\* sub stands in s at 0-based index i
OccursAt(s, i, sub) ==
    /\ i >= 0
    /\ i + Len(sub) <= Len(s)
    /\ SubSeq(s, i + 1, i + Len(sub)) = sub

HasMarker(b) == \E i \in 0..Len(b) : OccursAt(b, i, SBATCH)

\* a JSON-encoded string holds no raw newline character
NoRawNewline(b) == \A i \in 1..Len(b) : b[i] # NL

\* b with block inserted so that k characters of b precede it
InsertAt(b, k, block) == SubSeq(b, 1, k) \o block \o SubSeq(b, k + 1, Len(b))

RECURSIVE DirectiveLines(_)
\* the marker-prefixed directive lines, each ended by backslash, n
DirectiveLines(ps) ==
    IF ps = <<>> THEN <<>>
    ELSE SBATCH \o <<" ">> \o Head(ps) \o <<BS, "n">> \o DirectiveLines(Tail(ps))

\* 0-based index of the first marker occurrence (b holds the marker)
FirstMarker(b) ==
    CHOOSE i \in 0..Len(b) :
        /\ OccursAt(b, i, SBATCH)
        /\ \A j \in 0..(i - 1) : ~OccursAt(b, j, SBATCH)

\* in a JSON-encoded string: the position right after the escaped newline that
\* ends the line holding position i, or the end of the string
EncodedLineEnd(b, i) ==
    LET ends == {j \in (i + 2)..Len(b) : b[j - 1] = BS /\ b[j] = "n"}
    IN  IF ends = {} THEN Len(b) ELSE MinOf(ends)

LinesLen(ps, j) == Len(DirectiveLines(SubSeq(ps, 1, j)))

C2_SplicedAtFirstMarker ==
    (Injected /\ NoRawNewline(job_script_data_as_string)
        /\ HasMarker(job_script_data_as_string))
    => LET i == FirstMarker(job_script_data_as_string)
       IN  new_job_script_data_as_string =
                SubSeq(job_script_data_as_string, 1, i)
                    \o DirectiveLines(sbatch_params)
                    \o SubSeq(job_script_data_as_string, i + 1,
                              Len(job_script_data_as_string))

\* C2 witness: the marker is not at the start of the body, a second marker line
\* follows, and a directive was injected
C2_Witness ==
    /\ Injected
    /\ job_script_data_as_string = <<"a">> \o SBATCH \o <<BS, "n">> \o SBATCH
    /\ sbatch_params = << <<"q">> >>
    /\ new_job_script_data_as_string =
            <<"a">> \o SBATCH \o <<" ", "q", BS, "n">> \o SBATCH \o <<BS, "n">> \o SBATCH

\* C3: with an empty directive list the body is returned unchanged, for every
\* body.
C3_EmptyDirectivesIdentity ==
    (Injected /\ sbatch_params = <<>>)
    => new_job_script_data_as_string = job_script_data_as_string

\* C3 witness: an empty directive list with a body that holds the marker and a
\* raw newline
C3_Witness ==
    /\ Injected
    /\ sbatch_params = <<>>
    /\ HasMarker(job_script_data_as_string)
    /\ ~NoRawNewline(job_script_data_as_string)
    /\ new_job_script_data_as_string = job_script_data_as_string

\* C4: for every body and directive list the result is the body with the
\* directive lines inserted as one block at a single position k.
C4_SingleBlockInserted ==
    Injected
    => \E k \in 0..Len(job_script_data_as_string) :
            new_job_script_data_as_string =
                InsertAt(job_script_data_as_string, k, DirectiveLines(sbatch_params))

\* C4 witness: a body without marker and without trailing newline, where the
\* block lands before the last character
C4_Witness ==
    /\ Injected
    /\ job_script_data_as_string = <<"a", NL, "a", "a">>
    /\ sbatch_params = << <<"p">> >>
    /\ new_job_script_data_as_string =
            <<"a", NL, "a">> \o SBATCH \o <<" ", "p", BS, "n">> \o <<"a">>

\* the end of the first line of b: right after its first raw newline, or the end
\* of b when it has none
FirstLineEnd(b) ==
    LET nls == {j \in 1..Len(b) : b[j] = NL}
    IN  IF nls = {} THEN Len(b) ELSE MinOf(nls)

\* the value routers.py:46 computes when first_sbatch_index is 0
LineEndForMarkerAtZero(b) ==
    LET nls == {j \in 1..Len(b) : b[j] = NL}
    IN  IF nls = {} THEN 0 ELSE MinOf(nls)

\* C5 as stated: without marker and with a non-empty directive list, the block
\* is inserted where it would be if the marker started at index 0: right after
\* the end of the first line (at the end of the string without newline; the
\* code's own formula for a marker at index 0 gives the start of the string
\* then, and is accepted too).
C5_InsertedAsIfMarkerAtZero ==
    (Injected /\ ~HasMarker(job_script_data_as_string) /\ sbatch_params # <<>>)
    => \/ new_job_script_data_as_string =
            InsertAt(job_script_data_as_string,
                     FirstLineEnd(job_script_data_as_string),
                     DirectiveLines(sbatch_params))
       \/ new_job_script_data_as_string =
            InsertAt(job_script_data_as_string,
                     LineEndForMarkerAtZero(job_script_data_as_string),
                     DirectiveLines(sbatch_params))

\* C5 witness: a body without marker received a directive
C5_Witness ==
    /\ Injected
    /\ ~HasMarker(job_script_data_as_string)
    /\ Len(job_script_data_as_string) >= 2
    /\ sbatch_params # <<>>

---------------------------------------------------------------------------
(* Properties of merging and flattening, checked under SpecParams *)

RECURSIVE Writes(_)
\* the writes of the reference fold, in order: the inner entries of a mapping
\* value, the entry itself for a scalar
Writes(entries) ==
    IF entries = <<>> THEN <<>>
    ELSE (IF Head(entries).val.kind = "dict"
          THEN Head(entries).val.items
          ELSE <<Head(entries)>>) \o Writes(Tail(entries))

\* the value of the last write to k
LastWrite(ws, k) ==
    LET last == CHOOSE i \in 1..Len(ws) :
                    /\ ws[i].key = k
                    /\ \A j \in (i + 1)..Len(ws) : ws[j].key # k
    IN  ws[last].val

\* C7: the flattened parameter set holds exactly the names written by the
\* reference fold over the merged configuration, each with the value of the last
\* write to it; a namespace name is not added, and an inner value that is itself
\* a mapping is passed through as it is.
C7_FlattenIsLastWriteFold ==
    pc = "flattened"
    => LET ws == Writes(param_dict)
       IN  /\ Keys(param_dict_flat) = {ws[i].key : i \in 1..Len(ws)}
           /\ \A k \in Keys(param_dict_flat) : Get(param_dict_flat, k) = LastWrite(ws, k)
           /\ \A i, j \in 1..Len(param_dict_flat) :
                i # j => param_dict_flat[i].key # param_dict_flat[j].key

\* C7 witness: {"a": {"x": 2}, "b": {"y": 1, "x": 3}} flattens to x = 3, y = 1
C7_Witness ==
    /\ pc = "flattened"
    /\ param_dict = << Entry(<<"a">>, Dict(<<Entry(<<"x">>, Str(<<"2">>))>>)),
                       Entry(<<"b">>, Dict(<<Entry(<<"y">>, Str(<<"1">>)),
                                             Entry(<<"x">>, Str(<<"3">>))>>)) >>
    /\ Keys(param_dict_flat) = {<<"x">>, <<"y">>}
    /\ Get(param_dict_flat, <<"x">>) = Str(<<"3">>)
    /\ Get(param_dict_flat, <<"y">>) = Str(<<"1">>)

\* C8: every top-level key of the overlay holds the overlay's value in the merged
\* mapping, and every top-level key of the configuration that the overlay does
\* not define keeps its configured value.
C8_OverlayOnTopOfConfig ==
    pc \in {"flatten", "flattened"}
    => /\ \A k \in Keys(request_param_dict) :
            HasKey(param_dict, k) /\ Get(param_dict, k) = Get(request_param_dict, k)
       /\ \A k \in Keys(application_config) \ Keys(request_param_dict) :
            HasKey(param_dict, k) /\ Get(param_dict, k) = Get(application_config, k)

\* C8 witness: the overlay redefines a configured key with another value and a
\* second configured key is left alone
C8_Witness ==
    /\ pc = "flatten"
    /\ \E k \in Keys(request_param_dict) \cap Keys(application_config) :
            Get(request_param_dict, k) # Get(application_config, k)
    /\ Keys(application_config) \ Keys(request_param_dict) # {}

---------------------------------------------------------------------------
(* Properties of rendering, checked under SpecRender *)

\* the template handed in under application.sh, and its rendering
TemplateAtCall == Get(template_files_at_call, APPLICATION_SH)
RenderedText == Get(template_files, APPLICATION_SH)

\* the template references data.KEY for a KEY the parameter set lacks
ReferencesMissingKey ==
    \E i \in 1..Len(TemplateAtCall) :
        /\ TemplateAtCall[i] \in Placeholders
        /\ ~HasKey(param_dict_flat, PlaceholderKey(TemplateAtCall[i]))

\* the template is literal text only
LiteralOnly == \A i \in 1..Len(TemplateAtCall) : TemplateAtCall[i] \notin Placeholders

\* C9 as stated: rendering a template that references data.KEY for a KEY absent
\* from the flattened parameter set fails with a RenderError and returns no
\* rendered text.
C9_MissingKeyRaises ==
    (pc = "rendered" /\ ReferencesMissingKey)
    => (raised = "RenderError" /\ job_script_data_as_string = <<>>)

\* C9 witness: "{{ data.x }}" was rendered against the empty parameter set
C9_Witness ==
    /\ pc = "rendered"
    /\ TemplateAtCall = <<PH_X>>
    /\ param_dict_flat = <<>>

\* C10 as stated: rendering a template of literal text only returns exactly the
\* template text, for every parameter mapping, also when it ends with a newline.
C10_LiteralRoundTrip ==
    (pc = "rendered" /\ LiteralOnly)
    => (raised = "" /\ RenderedText = TemplateAtCall)

\* C10 witness: a literal template ending in a newline was rendered
C10_Witness ==
    /\ pc = "rendered"
    /\ TemplateAtCall = <<"a", NL>>
    /\ raised = ""

\* C15 as stated: render_template has no side effect on its inputs: the call
\* leaves the template mapping passed in with every key on its unrendered
\* template text, and the parameter mapping unchanged.
C15_RenderLeavesInputsUnchanged ==
    [][(pc = "render" /\ pc' = "rendered")
        => (template_files' = template_files /\ param_dict_flat' = param_dict_flat)]_vars

\* C15 witness: after the call the dict passed in holds the rendered text "1"
\* where it held the template "{{ data.x }}"
C15_Witness ==
    /\ pc = "rendered"
    /\ template_files_at_call = <<Entry(APPLICATION_SH, <<PH_X>>)>>
    /\ template_files = <<Entry(APPLICATION_SH, <<"1">>)>>

---------------------------------------------------------------------------
(* json.loads of an object of str to str, as the tests read a body           *)
(* (test_routers.py:293).  Positions are 1-based; a failed parse has ok      *)
(* FALSE.  The escapes \b and \uXXXX do not occur over the model's           *)
(* characters and are rejected.                                              *)

JsonWhitespace == {" ", NL, "\t", "\r"}

RECURSIVE SkipWhitespace(_, _)
SkipWhitespace(s, i) ==
    IF i <= Len(s) /\ s[i] \in JsonWhitespace THEN SkipWhitespace(s, i + 1) ELSE i

CharAt(s, i, c) == i <= Len(s) /\ s[i] = c

JsonFail == [ok |-> FALSE, val |-> <<>>, next |-> 0]

\* the character an escape letter stands for
Unescaped(c) ==
    IF c = "n" THEN NL ELSE IF c = "t" THEN "\t" ELSE IF c = "r" THEN "\r"
    ELSE IF c = "f" THEN "\f" ELSE c

RECURSIVE ScanString(_, _, _)
\* the rest of a string literal from position i, acc decoded so far
ScanString(s, i, acc) ==
    IF i > Len(s) THEN JsonFail
    ELSE IF s[i] = QT THEN [ok |-> TRUE, val |-> acc, next |-> i + 1]
    ELSE IF s[i] = BS
    THEN IF i + 1 <= Len(s) /\ s[i + 1] \in {QT, BS, "/", "n", "t", "r", "f"}
         THEN ScanString(s, i + 2, Append(acc, Unescaped(s[i + 1])))
         ELSE JsonFail
    ELSE IF s[i] \in {NL, "\t", "\r", "\f"} THEN JsonFail
    ELSE ScanString(s, i + 1, Append(acc, s[i]))

\* a string literal starting at position i
ParseString(s, i) == IF CharAt(s, i, QT) THEN ScanString(s, i + 1, <<>>) ELSE JsonFail

RECURSIVE ParseMembers(_, _, _)
\* the members of an object from position i, acc the entries read so far
ParseMembers(s, i, acc) ==
    LET k == ParseString(s, i)
        colon == SkipWhitespace(s, k.next)
        v == ParseString(s, SkipWhitespace(s, colon + 1))
        after == SkipWhitespace(s, v.next)
    IN  IF ~k.ok \/ ~CharAt(s, colon, ":") THEN JsonFail
        ELSE IF ~v.ok THEN JsonFail
        ELSE IF CharAt(s, after, ",")
        THEN ParseMembers(s, SkipWhitespace(s, after + 1), SetItem(acc, k.val, v.val))
        ELSE IF CharAt(s, after, "}")
        THEN [ok |-> TRUE, val |-> SetItem(acc, k.val, v.val), next |-> after + 1]
        ELSE JsonFail

\* json.loads(s): ok, and the decoded dict as val
JsonLoads(s) ==
    LET open == SkipWhitespace(s, 1)
        first == SkipWhitespace(s, open + 1)
        parsed == IF CharAt(s, first, "}")
                  THEN [ok |-> TRUE, val |-> <<>>, next |-> first + 1]
                  ELSE ParseMembers(s, first, <<>>)
    IN  IF ~CharAt(s, open, "{") THEN [ok |-> FALSE, val |-> <<>>]
        ELSE IF parsed.ok /\ SkipWhitespace(s, parsed.next) = Len(s) + 1
        THEN [ok |-> TRUE, val |-> parsed.val]
        ELSE [ok |-> FALSE, val |-> <<>>]

---------------------------------------------------------------------------
(* Properties of job_script_create, checked under Spec *)

RECURSIVE DecodedDirectiveLines(_)
\* the directive lines as they read in decoded text: each ended by a newline
DecodedDirectiveLines(ps) ==
    IF ps = <<>> THEN <<>>
    ELSE SBATCH \o <<" ">> \o Head(ps) \o <<NL>> \o DecodedDirectiveLines(Tail(ps))

\* the body holds the main script, with a directive line, and a supporting file
MainAndSupporting ==
    /\ pc = "insert"
    /\ HasKey(template_files, APPLICATION_SH)
    /\ Keys(template_files) # {APPLICATION_SH}
    /\ HasMarker(Get(template_files, APPLICATION_SH))

\* C6 as stated: with the main script and supporting files in the body, the
\* directives are inserted into the text of the application.sh entry and the
\* text of every supporting-file entry is unchanged.
C6_InjectedIntoMainScript ==
    (MainAndSupporting /\ sbatch_params # <<>>)
    => LET decoded == JsonLoads(new_job_script_data_as_string)
           main == Get(template_files, APPLICATION_SH)
       IN  /\ decoded.ok
           /\ Keys(decoded.val) = Keys(template_files)
           /\ \A k \in Keys(template_files) \ {APPLICATION_SH} :
                Get(decoded.val, k) = Get(template_files, k)
           /\ \E pos \in 0..Len(main) :
                Get(decoded.val, APPLICATION_SH)
                    = InsertAt(main, pos, DecodedDirectiveLines(sbatch_params))

\* C6 witness: a supporting file holding the marker precedes application.sh in
\* the body, and a directive was injected
C6_Witness ==
    /\ MainAndSupporting
    /\ sbatch_params # <<>>
    /\ template_files[1].key # APPLICATION_SH
    /\ HasMarker(template_files[1].val)

\* the body before injection decodes to the rendered files
BodyRoundTrip ==
    pc = "insert"
    => /\ JsonLoads(job_script_data_as_string).ok
       /\ JsonLoads(job_script_data_as_string).val = template_files

---------------------------------------------------------------------------
(* Properties of build_job_script_data_as_string, checked under SpecBuild *)

Built == pc = "built"

\* the manifest of the call, and what it declares
Manifest == Get(param_dict, JOBBERGATE_CONFIG).items
ListedPaths == SupportingFiles(Manifest)
MainNames == DefaultTemplateNames(Manifest)

\* the positions of the bundle members with a name of names
MembersNamed(names) ==
    {i \in 1..Len(s3_application_tar) : s3_application_tar[i].name \in names}

\* the output filename that supporting_files_output_name declares for path
DeclaredOutputName(path) ==
    Get(Get(Manifest, SUPPORTING_FILES_OUTPUT_NAME).items, path).elems[1].str

\* C11 as stated: whenever the assembly succeeds, the body is the JSON encoding
\* of a mapping that holds "application.sh" with the rendered default_template
\* member (under either of its names) and, for each listed supporting file
\* present in the bundle, its declared output filename with that file rendered
\* with the flattened parameter set.
C11_BodyHoldsMainAndSupporting ==
    (Built /\ raised = "")
    => LET decoded == JsonLoads(job_script_data_as_string)
       IN  /\ decoded.ok
           /\ HasKey(decoded.val, APPLICATION_SH)
           /\ \E i \in MembersNamed(MainNames) :
                Get(decoded.val, APPLICATION_SH)
                    = Render(s3_application_tar[i].content, param_dict_flat)
           /\ \A i \in MembersNamed(ListedPaths) :
                /\ HasKey(decoded.val, DeclaredOutputName(s3_application_tar[i].name))
                /\ Get(decoded.val, DeclaredOutputName(s3_application_tar[i].name))
                        = Render(s3_application_tar[i].content, param_dict_flat)

\* C11 witness: the main template j and then the supporting file s, declared to
\* be stored as "application.sh", were assembled; the body holds one entry, the
\* text of s
C11_Witness ==
    /\ Built
    /\ raised = ""
    /\ Manifest = SupportingAsMainConfig.items
    /\ s3_application_tar = <<Member(<<"j">>, <<"a", NL, PH_X>>),
                              Member(<<"s">>, SBATCH \o <<" ", PH_X, NL, "a">>)>>
    /\ JsonLoads(job_script_data_as_string).val
            = <<Entry(APPLICATION_SH, SBATCH \o <<" ", "1", NL, "a">>)>>

\* the default template, or a listed supporting path, names no bundle member
MemberMissing ==
    \/ MembersNamed(MainNames) = {}
    \/ \E path \in ListedPaths : MembersNamed({path}) = {}

\* C12 as stated: if the default template or a listed supporting path names no
\* member of the bundle, the assembly fails with MemberNotFound and returns no
\* body.
C12_MissingMemberRaises ==
    (Built /\ MemberMissing)
    => (raised = "MemberNotFound" /\ job_script_data_as_string = <<>>)

\* C12 witness: the assembly of an empty bundle returned the body "{}"
C12_Witness ==
    /\ Built
    /\ s3_application_tar = <<>>
    /\ raised = ""
    /\ job_script_data_as_string = <<"{", "}">>

\* a listed supporting path is a bundle member and no key of
\* supporting_files_output_name matches it
UnmappedSupportingMember ==
    \E i \in MembersNamed(ListedPaths) :
        \A k \in Keys(SupportFilesOutput(Manifest)) :
            Find(k, s3_application_tar[i].name) = -1

\* C13 as stated: if a listed supporting path is a bundle member and no entry
\* of supporting_files_output_name matches it, the assembly fails with the
\* configuration error MissingOutputMapping and returns no body.
C13_UnmappedRaisesMissingOutputMapping ==
    (Built /\ UnmappedSupportingMember)
    => (raised = "MissingOutputMapping" /\ job_script_data_as_string = <<>>)

\* C13 witness: s is listed and in the bundle, supporting_files_output_name is
\* empty, and the call ended with IndexError
C13_Witness ==
    /\ Built
    /\ Manifest = UnnamedSupportingConfig.items
    /\ UnmappedSupportingMember
    /\ raised = "IndexError"
    /\ job_script_data_as_string = <<>>

\* C14 as stated: if supporting_files or supporting_files_output_name is absent
\* from jobbergate_config and the default template is in the bundle, the
\* assembly succeeds, the body holds exactly the entry "application.sh", and no
\* supporting file is rendered.
C14_AbsentKeyMeansMainOnly ==
    (/\ Built
     /\ ~HasKey(Manifest, SUPPORTING_FILES) \/ ~HasKey(Manifest, SUPPORTING_FILES_OUTPUT_NAME)
     /\ MembersNamed(MainNames) # {})
    => LET decoded == JsonLoads(job_script_data_as_string)
       IN  /\ raised = ""
           /\ decoded.ok
           /\ Keys(decoded.val) = {APPLICATION_SH}
           /\ \A i \in 1..Len(temp_files) : temp_files[i].members = <<>>

\* C14 witness: supporting_files lists s, supporting_files_output_name is
\* absent, the bundle holds the main template and s, and the call ended with
\* IndexError
C14_Witness ==
    /\ Built
    /\ Manifest = NoOutputNameConfig.items
    /\ MembersNamed(MainNames) # {}
    /\ MembersNamed(ListedPaths) # {}
    /\ raised = "IndexError"

\* C16 as stated: whether the call returns a body or raises, it leaves no
\* temporary storage behind: every temporary file it created is closed and off
\* the disk when it exits.
C16_NoTemporaryStorageLeft ==
    Built
    => \A i \in 1..Len(temp_files) : temp_files[i].closed /\ ~temp_files[i].on_disk

\* C16 witness: a successful call with a supporting file left its temporary
\* archive on disk
C16_Witness ==
    /\ Built
    /\ raised = ""
    /\ Len(temp_files) = 1
    /\ temp_files[1].on_disk
    /\ temp_files[1].members = << <<"s">> >>

---------------------------------------------------------------------------
(* Properties of the handlers job_script_create and job_script_delete,       *)
(* checked under Spec                                                        *)

\* the requested application is stored
ApplicationKnown == \E a \in applications : a.id = job_script.application_id

\* nothing was assembled or rendered, and no temporary file created
NothingRendered ==
    /\ param_dict_flat = <<>>
    /\ template_files = <<>>
    /\ job_script_data_as_string = <<>>
    /\ new_job_script_data_as_string = <<>>
    /\ temp_files = <<>>

\* the steps of job_script_create in their order, each also able to abort, the
\* insert by an integrity exception
CreateOrder ==
    {<<"create", "fetch">>, <<"fetch", "build">>, <<"build", "insert">>, <<"insert", "done">>,
     <<"create", "failed">>, <<"fetch", "failed">>, <<"build", "failed">>,
     <<"insert", "conflict">>}

\* the handler ended by an exception
CreateAborted == pc = "failed"

\* C17: job_script_create steps through lookup, fetch, assembly with injection,
\* and insert in this order and aborts at the first failing step: an unknown
\* application_id ends with 404 and no call of the object store; a failing
\* object store ends with 404 after exactly one call and with nothing rendered;
\* an exception of the assembly or injection leaves the handler as it is
\* (no response of the handler's own); and only the insert step of a call that
\* got through all earlier steps changes the job_scripts table.
C17_StepsInOrderAbortAtFirstFailure ==
    /\ [](CreateAborted =>
            /\ ~ApplicationKnown
                => (status_code = HTTP_404_NOT_FOUND /\ s3_calls = 0 /\ NothingRendered)
            /\ (ApplicationKnown /\ s3_bucket.raises # "")
                => (status_code = HTTP_404_NOT_FOUND /\ s3_calls = 1 /\ NothingRendered)
            /\ (ApplicationKnown /\ s3_bucket.raises = "")
                => (raised # "" /\ status_code = 0 /\ s3_calls = 1
                        /\ new_job_script_data_as_string = <<>>))
    /\ [][/\ pc \in {"create", "fetch", "build", "insert"} => <<pc, pc'>> \in CreateOrder
          /\ pc' = "fetch" => (ApplicationKnown /\ s3_calls' = 0)
          /\ pc' = "build" => (s3_bucket.raises = "" /\ s3_calls' = 1 /\ NothingRendered')
          /\ pc' = "insert" => raised' = ""
          /\ pc \in {"create", "fetch", "build"} => job_scripts' = job_scripts]_vars

\* C17 witness: the application is stored, the object store failed, and the
\* handler ended with 404 after one call, the table as it was
C17_Witness ==
    /\ CreateAborted
    /\ ApplicationKnown
    /\ s3_bucket.raises = "BotoCoreError"
    /\ status_code = HTTP_404_NOT_FOUND
    /\ s3_calls = 1
    /\ job_scripts = {StoredJobScript(1, OWNER2)}

\* the body the kernel gives for the stored application and the request
ExpectedBody ==
    LET application == CHOOSE a \in applications : a.id = job_script.application_id
        merged == MergedParamDict(application.application_config, request_param_dict)
    IN  inject_sbatch_params(
            build_job_script_data_as_string(s3_bucket.members, merged).body, sbatch_params)

\* C18: the step that completes job_script_create has fetched the archive
\* exactly once, adds exactly one row to job_scripts and answers 201 with that
\* row; the row holds the requester's email from the token as owner, the
\* requested application_id, and as job_script_data_as_string the injected
\* assembly of the archive and the merged configuration, whatever body the
\* request supplied; param_dict and sbatch_params are no columns of the row.
C18_SuccessfulCreateInsertsOneRow ==
    [][pc' = "done" =>
        \E row \in job_scripts' :
            /\ row \notin job_scripts
            /\ job_scripts' = job_scripts \cup {row}
            /\ \A other \in job_scripts : other.id # row.id
            /\ returned' = {row}
            /\ status_code' = HTTP_201_CREATED
            /\ s3_calls' = 1
            /\ row.job_script_owner_email = identity_claims.user_email
            /\ row.application_id = job_script.application_id
            /\ row.job_script_name = job_script.job_script_name
            /\ row.job_script_data_as_string = ExpectedBody
            /\ DOMAIN row \cap {"param_dict", "sbatch_params"} = {}]_vars

\* C18 witness: a create request with a directive and an overlay was answered
\* 201; the table holds the earlier row and the new one, whose body is not the
\* supplied one
C18_Witness ==
    /\ pc = "done"
    /\ status_code = HTTP_201_CREATED
    /\ sbatch_params # <<>>
    /\ request_param_dict # <<>>
    /\ Cardinality(job_scripts) = 2
    /\ \E row \in returned :
            /\ row.id = 2
            /\ row.job_script_data_as_string # job_script.job_script_data_as_string
            /\ HasMarker(row.job_script_data_as_string)

---------------------------------------------------------------------------
(* Properties of concurrent creations, checked under SpecConcurrent *)

\* what the call c produces when it runs alone: the outcome of the assembly,
\* and the injected body
AloneBuilt(c) ==
    LET application == CHOOSE a \in applications : a.id = job_script[c].application_id
    IN  build_job_script_data_as_string(
            s3_bucket[job_script[c].application_id].members,
            MergedParamDict(application.application_config, request_param_dict[c]))
AloneBody(c) == inject_sbatch_params(AloneBuilt(c).body, sbatch_params[c])

\* C19: in every interleaving of two job_script_create calls, each on its own
\* archive and parameter mapping, a call that gets to the insert holds, and
\* stores and returns, the body it would produce when run alone, and a call
\* whose assembly fails fails as it would alone.
C19_ConcurrentCallsIndependent ==
    \A c \in Calls :
        /\ pc[c] \in {"inject", "insert", "done"}
            => (AloneBuilt(c).raised = ""
                    /\ job_script_data_as_string[c] = AloneBuilt(c).body)
        /\ pc[c] \in {"insert", "done"} => new_job_script_data_as_string[c] = AloneBody(c)
        /\ pc[c] = "done"
            => \E row \in job_scripts :
                    /\ returned[c] = {row}
                    /\ row.job_script_data_as_string = AloneBody(c)
                    /\ row.job_script_owner_email = identity_claims[c].user_email
        /\ (pc[c] = "failed" /\ status_code[c] = 0) => raised[c] = AloneBuilt(c).raised

\* C19 witness: the calls, for the applications 1 and 2, both completed with
\* different bodies; call 1 wrote its temporary archive first and inserted its
\* row last
C19_Witness ==
    /\ \A c \in Calls : pc[c] = "done" /\ job_script[c].application_id = c
    /\ new_job_script_data_as_string[1] # new_job_script_data_as_string[2]
    /\ temp_files[1].members = <<>>
    /\ temp_files[2].members = << <<"s">> >>
    /\ \E row \in returned[1] : row.id = 2

---------------------------------------------------------------------------
(* Properties of inject_sbatch_params: line terminators, JSON bodies,
   repeated injection *)

\* the lines of b are separated by raw newline characters only
UsesRawNewlines(b) ==
    /\ ~NoRawNewline(b)
    /\ \A i \in 0..Len(b) : ~OccursAt(b, i, ESCAPED_NL)

\* C23: each inserted directive line ends the way the body's own lines end: with
\* the escaped two-character sequence when the body is JSON-encoded, with a raw
\* newline character when the body's lines are separated by raw newlines.
C23_TerminatorMatchesBody ==
    (Injected /\ sbatch_params # <<>>)
    => /\ NoRawNewline(job_script_data_as_string)
            => \E k \in 0..Len(job_script_data_as_string) :
                    new_job_script_data_as_string =
                        InsertAt(job_script_data_as_string, k,
                                 DirectiveLines(sbatch_params))
       /\ UsesRawNewlines(job_script_data_as_string)
            => \E k \in 0..Len(job_script_data_as_string) :
                    new_job_script_data_as_string =
                        InsertAt(job_script_data_as_string, k,
                                 DecodedDirectiveLines(sbatch_params))

\* C23 case: a body whose marker line ends with a raw newline gets a directive
\* line that ends with the escaped sequence
C23_Witness ==
    /\ Injected
    /\ job_script_data_as_string = SBATCH \o <<NL, "a">>
    /\ sbatch_params = << <<"p">> >>
    /\ new_job_script_data_as_string =
            SBATCH \o <<NL>> \o SBATCH \o <<" ", "p", BS, "n">> \o <<"a">>

\* C29: injecting d1 and then d2 into a body that holds the marker gives what
\* one injection of d2 followed by d1 gives.
C29_InjectionComposesByPrepending ==
    [][(pc = "injected" /\ pc' = "injected_again"
            /\ HasMarker(job_script_data_as_string))
        => new_job_script_data_as_string' =
                inject_sbatch_params(job_script_data_as_string,
                                     sbatch_params' \o sbatch_params)]_vars

\* C29 witness: q injected into the result of injecting p into a marker line
\* followed by a second marker
C29_Witness ==
    /\ pc = "injected_again"
    /\ job_script_data_as_string =
            SBATCH \o <<NL>> \o SBATCH \o <<" ", "p", BS, "n">> \o SBATCH
    /\ sbatch_params = << <<"q">> >>
    /\ new_job_script_data_as_string =
            SBATCH \o <<NL>> \o SBATCH \o <<" ", "q", BS, "n">>
                \o SBATCH \o <<" ", "p", BS, "n">> \o SBATCH

\* C25: when the body is the JSON encoding of a mapping and holds the marker,
\* the result of the injection is again the JSON encoding of a mapping, with the
\* same keys, whatever the directive strings hold.
C25_InjectionKeepsJsonMapping ==
    (Injected /\ JsonLoads(job_script_data_as_string).ok
        /\ HasMarker(job_script_data_as_string))
    => /\ JsonLoads(new_job_script_data_as_string).ok
       /\ Keys(JsonLoads(new_job_script_data_as_string).val)
            = Keys(JsonLoads(job_script_data_as_string).val)

\* C25 case: a directive holding double quotes was injected into a JSON body
\* and the result no longer decodes
C25_Witness ==
    /\ Injected
    /\ template_files = <<Entry(APPLICATION_SH, SBATCH)>>
    /\ JsonLoads(job_script_data_as_string).ok
    /\ sbatch_params = << <<QT, "x", QT>> >>
    /\ ~JsonLoads(new_job_script_data_as_string).ok

---------------------------------------------------------------------------
(* The overlay in the flattened parameter set, checked under SpecParams *)

\* C27: every name the overlay defines, as a top-level scalar or inside one of
\* its namespaces, holds the overlay's value in the flattened parameter set,
\* whatever the configuration's other namespaces define.
C27_OverlayWinsInFlattenedSet ==
    pc = "flattened"
    => LET ws == Writes(request_param_dict)
       IN  \A i \in 1..Len(ws) :
                /\ HasKey(param_dict_flat, ws[i].key)
                /\ Get(param_dict_flat, ws[i].key) = LastWrite(ws, ws[i].key)

\* C27 case: the overlay sets x = 2 in namespace a, the configuration's later
\* namespace b sets x = 3, and the flattened set holds x = 3
C27_Witness ==
    /\ pc = "flattened"
    /\ request_param_dict = <<Entry(<<"a">>, Dict(<<Entry(<<"x">>, Str(<<"2">>))>>))>>
    /\ application_config =
            << Entry(<<"a">>, Str(<<"1">>)),
               Entry(<<"b">>, Dict(<<Entry(<<"y">>, Str(<<"1">>)),
                                     Entry(<<"x">>, Str(<<"3">>))>>)) >>
    /\ Get(param_dict_flat, <<"x">>) = Str(<<"3">>)

---------------------------------------------------------------------------
(* Output names and the manifest, checked under SpecBuild and SpecConcurrent *)

\* the listed paths that supporting_files_output_name holds as a key
ExactlyMapped == ListedPaths \cap Keys(SupportFilesOutput(Manifest))

\* the exact entries declare output names that differ from one another and from
\* the name of the main script
OutputNamesDistinct ==
    /\ \A p \in ExactlyMapped : DeclaredOutputName(p) # APPLICATION_SH
    /\ \A p, q \in ExactlyMapped :
            p # q => DeclaredOutputName(p) # DeclaredOutputName(q)

\* C28: a supporting file whose path is exactly a key of
\* supporting_files_output_name is stored in the body under the output filename
\* of that entry, also when an earlier key holds the path as a substring.
C28_ExactKeyNamesTheOutput ==
    (Built /\ raised = "" /\ OutputNamesDistinct)
    => LET decoded == JsonLoads(job_script_data_as_string)
       IN  \A i \in MembersNamed(ExactlyMapped) :
                /\ HasKey(decoded.val, DeclaredOutputName(s3_application_tar[i].name))
                /\ Get(decoded.val, DeclaredOutputName(s3_application_tar[i].name))
                        = Render(s3_application_tar[i].content, param_dict_flat)

\* C28 case: s has the exact entry s -> o after the entry s2 -> p, and the body
\* holds the text of s under p and nothing under o
C28_Witness ==
    /\ Built
    /\ raised = ""
    /\ Manifest = SubstringKeyConfig.items
    /\ s3_application_tar = <<Member(<<"j">>, <<"a", NL, PH_X>>),
                              Member(<<"s">>, SBATCH \o <<" ", PH_X, NL, "a">>)>>
    /\ JsonLoads(job_script_data_as_string).val
            = <<Entry(APPLICATION_SH, <<"a", NL, "1">>),
                Entry(<<"p">>, SBATCH \o <<" ", "1", NL, "a">>)>>

\* C26: two creations against the same application and archive that differ only
\* in param_dict store bodies with the same set of keys.
C26_ManifestFromStoredConfigAlone ==
    \A c, d \in Calls :
        (/\ pc[c] \in {"insert", "done"}
         /\ pc[d] \in {"insert", "done"}
         /\ job_script[c].application_id = job_script[d].application_id
         /\ sbatch_params[c] = sbatch_params[d])
        => Keys(JsonLoads(new_job_script_data_as_string[c]).val)
                = Keys(JsonLoads(new_job_script_data_as_string[d]).val)

\* C26 case: both requests name application 2, whose manifest lists the
\* supporting file s; the second one's param_dict holds a jobbergate_config
\* without it, and its body lacks the entry the first one's has
C26_Witness ==
    /\ pc = [c \in Calls |-> "done"]
    /\ job_script[1].application_id = 2
    /\ job_script[2].application_id = 2
    /\ sbatch_params[1] = sbatch_params[2]
    /\ request_param_dict[1] = <<>>
    /\ request_param_dict[2] = <<Entry(JOBBERGATE_CONFIG, MainOnlyConfig)>>
    /\ Keys(JsonLoads(new_job_script_data_as_string[1]).val) = {APPLICATION_SH, <<"o">>}
    /\ Keys(JsonLoads(new_job_script_data_as_string[2]).val) = {APPLICATION_SH}

---------------------------------------------------------------------------
(* Properties of the handlers job_script_update and job_script_list, and of  *)
(* integrity exceptions, checked under Spec                                  *)

C22_ListFiltersByOwnerUnlessAll ==
    [][pc = "list"
        => /\ job_scripts' = job_scripts
           /\ returned' \subseteq job_scripts
           /\ ~all => \A r \in job_scripts :
                        r \in returned'
                            <=> r.job_script_owner_email = identity_claims.user_email
           /\ all => returned' = job_scripts]_vars

\* C22 witness: owner 1 listed without all and got rows 1 and 3 of the three
\* rows, row 2 being owner 2's
C22_Witness ==
    /\ pc = "listed"
    /\ ~all
    /\ identity_claims.user_email = OWNER1
    /\ Cardinality(job_scripts) = 3
    /\ returned = {StoredJobScript(1, OWNER1), StoredJobScript(3, OWNER1)}

\* a list request with all was answered with the rows of both owners
ListedAll ==
    /\ pc = "listed"
    /\ all
    /\ {r.job_script_owner_email : r \in returned} = {OWNER1, OWNER2}

\* C24: an integrity exception of the database becomes a client error and
\* leaves the stored data as it was: in job_script_create the answer is 422 and
\* no row is added, in job_script_update the answer is 409 and the row of the
\* requested id keeps its values.
C24_IntegrityErrorKeepsStoredData ==
    [][/\ (pc = "insert" /\ raised' \in INTEGRITY_CHECK_EXCEPTIONS)
            => /\ status_code' = HTTP_422_UNPROCESSABLE_ENTITY
               /\ job_scripts' = job_scripts
               /\ returned' = {}
       /\ (pc = "update" /\ raised' \in INTEGRITY_CHECK_EXCEPTIONS)
            => /\ status_code' = HTTP_409_CONFLICT
               /\ job_scripts' = job_scripts
               /\ \E r \in job_scripts' : r.id = job_script_id
               /\ returned' = {}]_vars

\* C24 witness: the insert of a create request whose body was assembled raised
\* UniqueViolationError; the answer is 422 and the table holds the earlier row
\* only
C24_Witness ==
    /\ pc = "conflict"
    /\ raised = "UniqueViolationError"
    /\ status_code = HTTP_422_UNPROCESSABLE_ENTITY
    /\ HasMarker(new_job_script_data_as_string)
    /\ job_scripts = {StoredJobScript(1, OWNER2)}
    /\ returned = {}

\* the update of row 2 raised UniqueViolationError; the answer is 409 and both
\* rows are as stored
UpdateConflict ==
    /\ pc = "update_conflict"
    /\ raised = "UniqueViolationError"
    /\ status_code = HTTP_409_CONFLICT
    /\ job_script_id = 2
    /\ job_scripts = {StoredJobScript(1, OWNER1), StoredJobScript(2, OWNER2)}

---------------------------------------------------------------------------
(* Properties of concurrent deletions, checked under SpecConcurrentDelete *)

\* both delete requests were answered
BothAnswered == \A c \in Calls : pc[c] \in {"deleted", "delete_failed"}

\* C30: of two concurrent delete requests for the same id at most one is
\* answered 204, however their select and delete statements interleave.
C30_AtMostOneDeleteSucceeds ==
    (BothAnswered /\ job_script_id[1] = job_script_id[2])
    => Cardinality({c \in Calls : status_code[c] = HTTP_204_NO_CONTENT}) <= 1

\* C30 case: both requests named the stored id 1, both selects ran before
\* either delete, and both were answered 204
C30_Witness ==
    /\ BothAnswered
    /\ job_script_id = [c \in Calls |-> 1]
    /\ status_code = [c \in Calls |-> HTTP_204_NO_CONTENT]
    /\ job_scripts = {StoredJobScript(2, OWNER2)}

===========================================================================
